---------------------------- MODULE Spec2Model ----------------------------
(***************************************************************************)
(* Model of src/src/main.rs (DualSense rainbow lightbar driver):           *)
(*   - the CRC-32 used by the Bluetooth report (calculate_crc32,           *)
(*     generate_crc32_table),                                              *)
(*   - the controller session (DualSenseController::new, set_lightbar,     *)
(*     get_stats) with the HID transport as the environment,               *)
(*   - the colour model (hsv_to_rgb, get_color_name) and the effect loop   *)
(*     of main.                                                            *)
(*                                                                         *)
(* A u32 is the tuple of its four bytes, least significant first: the     *)
(* model checker's integers are 32-bit signed, and the CRC needs all 32    *)
(* bits.                                                                   *)
(***************************************************************************)
EXTENDS Integers, Sequences, FiniteSets, TLC

VARIABLES
    usb_mode,      \* DualSenseController.usb_mode
    last_color,    \* DualSenseController.last_color
    send_count,    \* DualSenseController.send_count
    error_count,   \* DualSenseController.error_count
    report,        \* transport: the bytes of the last report handed to device.write (<<>>: none yet)
    dev_ok,        \* transport: number of device.write calls that succeeded
    dev_fail,      \* transport: number of device.write calls that failed
    ret,           \* result of the last set_lightbar call: "none", "Ok" or "Err"
    stats_out,     \* value returned by the last get_stats call (<<>>: none yet)
    hist,          \* session API trace: one record per set_lightbar call
    crc_in,        \* argument of calculate_crc32
    crc_out,       \* result of calculate_crc32 (<<>>: not yet called)
    pc,            \* main: "idle" (not started), "loop" (in the effect loop) or "exit"
    hue,           \* main: hue, in half degrees (hue = 3 stands for 1.5)
    rgb,           \* main: (r, g, b) of the last iteration
    frame_count,   \* main: frame_count
    since_log,     \* main: last_log.elapsed() in ticks of 1/60 s, saturating at log_interval
    frame_time,    \* main: frame_time of the last iteration, in ticks
    counted,       \* frame_count as the match arm of the last iteration left it, before any reset
    snapshot,      \* last diagnostic line printed (<<>>: none yet)
    logged,        \* whether the last iteration printed a diagnostic line
    due,           \* whether last_log.elapsed() >= log_interval when set_lightbar returned
    iter           \* number of loop iterations run

ctl_vars  == <<usb_mode, last_color, send_count, error_count>>
dev_vars  == <<report, dev_ok, dev_fail>>
api_vars  == <<ret, stats_out, hist>>
crc_vars  == <<crc_in, crc_out>>
loop_vars == <<pc, hue, rgb, frame_count, since_log, frame_time, counted,
               snapshot, logged, due, iter>>
vars == <<ctl_vars, dev_vars, api_vars, crc_vars, loop_vars>>

---------------------------------------------------------------------------
(* Bounds of the exploration *)

MaxCalls == 3      \* set_lightbar / get_stats calls explored per session
MaxCrcLen == 3     \* length of the byte sequences given to calculate_crc32
MaxIter == 245     \* iterations of the effect loop explored
MaxFailIter == 22  \* the transport may fail during this many first iterations

---------------------------------------------------------------------------
(* u8 / u32 arithmetic *)

RECURSIVE Pow2(_)
Pow2(n) == IF n = 0 THEN 1 ELSE 2 * Pow2(n - 1)

\* a ^ b for integers below 2^n, bit by bit
RECURSIVE XorBits(_, _, _)
XorBits(a, b, n) ==
    IF n = 0 THEN 0
    ELSE ((a + b) % 2) + 2 * XorBits(a \div 2, b \div 2, n - 1)

\* a ^ b for 4-bit values, tabulated (entry [a + 1][b + 1])
XorNibble ==
    SubSeq([a \in 1..16 |-> SubSeq([b \in 1..16 |-> XorBits(a - 1, b - 1, 4)], 1, 16)], 1, 16)

\* a ^ b for u8
XorByte(a, b) ==
    16 * XorNibble[(a \div 16) + 1][(b \div 16) + 1] + XorNibble[(a % 16) + 1][(b % 16) + 1]

\* A u32 is the tuple of its four bytes, least significant first.
U32OfBytes(b0, b1, b2, b3) == <<b0, b1, b2, b3>>

\* `byte as u32`: zero extension
U32OfByte(byte) == <<byte, 0, 0, 0>>

\* a ^ b
Xor32(a, b) ==
    <<XorByte(a[1], b[1]), XorByte(a[2], b[2]), XorByte(a[3], b[3]), XorByte(a[4], b[4])>>

\* a >> 1
Shr1(a) ==
    <<(a[1] \div 2) + 128 * (a[2] % 2), (a[2] \div 2) + 128 * (a[3] % 2),
      (a[3] \div 2) + 128 * (a[4] % 2), a[4] \div 2>>

\* a >> 8
Shr8(a) == <<a[2], a[3], a[4], 0>>

\* !a
Not32(a) == <<255 - a[1], 255 - a[2], 255 - a[3], 255 - a[4]>>

\* a & 1
LowBit(a) == a[1] % 2

\* ((a >> 8k) & 0xFF) as u8
ByteOf(a, k) == a[k + 1]

Zero32 == <<0, 0, 0, 0>>
Ones32 == <<255, 255, 255, 255>>     \* 0xFFFFFFFF

---------------------------------------------------------------------------
(* CRC-32 *)

\* 0xEDB88320
CrcPoly == U32OfBytes(32, 131, 184, 237)

\* one pass of the inner `while j < 8` loop of generate_crc32_table
table_step(crc) ==
    IF LowBit(crc) # 0 THEN Xor32(Shr1(crc), CrcPoly) ELSE Shr1(crc)

\* crc after j passes of the inner loop, starting from `i as u32`
RECURSIVE table_entry(_, _)
table_entry(i, j) ==
    IF j = 0 THEN U32OfByte(i) ELSE table_step(table_entry(i, j - 1))

\* the table as a sequence: table[i] of the source is element i + 1
generate_crc32_table == SubSeq([n \in 1..256 |-> table_entry(n - 1, 8)], 1, 256)

CRC32_TABLE == generate_crc32_table

\* one pass of the `for &byte in data` loop of calculate_crc32
crc_step(crc, byte) ==
    LET index == ByteOf(Xor32(crc, U32OfByte(byte)), 0)
    IN  Xor32(Shr8(crc), CRC32_TABLE[index + 1])

\* the `for &byte in data` loop of calculate_crc32 over data[lo..hi], entered
\* with crc: the loop over data[lo..hi] is the loop over data[lo..mid] followed
\* by the loop over data[mid+1..hi] (halving keeps the evaluation shallow; the
\* width test has the first half computed before the second is entered)
RECURSIVE crc_loop(_, _, _, _)
crc_loop(crc, data, lo, hi) ==
    IF lo > hi THEN crc
    ELSE IF lo = hi THEN crc_step(crc, data[lo])
    ELSE LET mid  == (lo + hi) \div 2
             left == crc_loop(crc, data, lo, mid)
         IN  CASE Len(left) = 4 -> crc_loop(left, data, mid + 1, hi)

\* calculate_crc32 without the final inversion
calculate_crc32_no_inversion(data) == crc_loop(Ones32, data, 1, Len(data))

calculate_crc32(data) == Not32(crc_loop(Ones32, data, 1, Len(data)))

---------------------------------------------------------------------------
(* DualSenseController *)

\* interface numbers the enumeration may report for the device
Interfaces == {-1, 0, 3}

\* colours given to set_lightbar by a caller of the session API
Colors == { <<0, 0, 0>>, <<10, 20, 30>>, <<255, 255, 255>> }

\* byte at offset off (0-based, as in the source) of a report
At(rep, off) == rep[off + 1]

\* vec![0; n]
ZeroVec(n) == SubSeq([k \in 1..n |-> 0], 1, n)

\* usb_report with the colour written one byte early (offsets 44..46)
usb_report_shifted(r, g, b) ==
    [ZeroVec(48) EXCEPT ![0 + 1] = 2, ![1 + 1] = 255, ![2 + 1] = 247,
                        ![44 + 1] = r, ![45 + 1] = g, ![46 + 1] = b]

\* the USB branch: report id 0x02, flags, RGB at offsets 45..47
usb_report(r, g, b) ==
    [ZeroVec(48) EXCEPT ![0 + 1] = 2, ![1 + 1] = 255, ![2 + 1] = 247,
                        ![45 + 1] = r, ![46 + 1] = g, ![47 + 1] = b]

\* the Bluetooth branch before the checksum: report id 0x31, flags, RGB at 47..49
bt_header(r, g, b) ==
    [ZeroVec(78) EXCEPT ![0 + 1] = 49, ![1 + 1] = 2, ![2 + 1] = 255, ![3 + 1] = 247,
                        ![47 + 1] = r, ![48 + 1] = g, ![49 + 1] = b]

\* bt_trailer with the checksum stored most significant byte first
bt_trailer_big_endian(rep) ==
    LET crc == calculate_crc32(SubSeq(rep, 1, 74))
    IN  [rep EXCEPT ![74 + 1] = ByteOf(crc, 3), ![75 + 1] = ByteOf(crc, 2),
                    ![76 + 1] = ByteOf(crc, 1), ![77 + 1] = ByteOf(crc, 0)]

\* the checksum trailer: crc of report[0..74], little-endian at offsets 74..77
bt_trailer(rep) ==
    LET crc == calculate_crc32(SubSeq(rep, 1, 74))
    IN  [rep EXCEPT ![74 + 1] = ByteOf(crc, 0), ![75 + 1] = ByteOf(crc, 1),
                    ![76 + 1] = ByteOf(crc, 2), ![77 + 1] = ByteOf(crc, 3)]

bt_report(r, g, b) == bt_trailer(bt_header(r, g, b))

\* the report set_lightbar builds for (r, g, b) in the session's mode
build_report(r, g, b) ==
    IF usb_mode THEN usb_report(r, g, b) ELSE bt_report(r, g, b)

\* the de-duplication test at the top of set_lightbar
is_last_color(r, g, b) == <<r, g, b>> = last_color

\* self.device.write(&report): the transport takes the bytes and either
\* accepts them (ok) or fails
device_write(rep, ok) ==
    /\ report' = rep
    /\ IF ok THEN dev_ok' = dev_ok + 1 /\ UNCHANGED dev_fail
             ELSE dev_fail' = dev_fail + 1 /\ UNCHANGED dev_ok

\* write_ok_arm that records the colour and forgets to count the send
write_ok_arm_uncounted(r, g, b) ==
    /\ last_color' = <<r, g, b>>
    /\ UNCHANGED <<send_count, error_count>>
    /\ ret' = "Ok"

\* the Ok(_) arm of the match on the write
write_ok_arm(r, g, b) ==
    /\ last_color' = <<r, g, b>>
    /\ send_count' = send_count + 1
    /\ UNCHANGED error_count
    /\ ret' = "Ok"

\* the Err(e) arm of the match on the write
write_err_arm ==
    /\ error_count' = error_count + 1
    /\ UNCHANGED <<last_color, send_count>>
    /\ ret' = "Err"

\* set_lightbar that records the colour before it knows the write's outcome
set_lightbar_eager(r, g, b, ok) ==
    /\ UNCHANGED usb_mode
    /\ IF is_last_color(r, g, b)
       THEN /\ ret' = "Ok"
            /\ UNCHANGED <<last_color, send_count, error_count, dev_vars>>
       ELSE /\ device_write(build_report(r, g, b), ok)
            /\ last_color' = <<r, g, b>>
            /\ IF ok THEN send_count' = send_count + 1 /\ UNCHANGED error_count /\ ret' = "Ok"
                     ELSE error_count' = error_count + 1 /\ UNCHANGED send_count /\ ret' = "Err"

\* set_lightbar(r, g, b), the transport answering ok to a write
set_lightbar(r, g, b, ok) ==
    /\ UNCHANGED usb_mode
    /\ IF is_last_color(r, g, b)
       THEN /\ ret' = "Ok"
            /\ UNCHANGED <<last_color, send_count, error_count, dev_vars>>
       ELSE /\ device_write(build_report(r, g, b), ok)
            /\ IF ok THEN write_ok_arm(r, g, b) ELSE write_err_arm

get_stats == <<send_count, error_count>>

\* DualSenseController::new for a device found on interface iface
new(iface) ==
    /\ usb_mode = (iface = 3)
    /\ last_color = <<0, 0, 0>>
    /\ send_count = 0
    /\ error_count = 0

\* the transport before any write
DeviceInit == report = <<>> /\ dev_ok = 0 /\ dev_fail = 0

\* the parts of the state a specification does not use
ApiIdle  == ret = "none" /\ stats_out = <<>> /\ hist = <<>>
CrcIdle  == crc_in = <<>> /\ crc_out = <<>>
LoopIdle ==
    /\ pc = "idle" /\ hue = 0 /\ rgb = <<0, 0, 0>> /\ frame_count = 0
    /\ since_log = 0 /\ frame_time = 0 /\ counted = 0 /\ snapshot = <<>>
    /\ logged = FALSE /\ due = FALSE /\ iter = 0

---------------------------------------------------------------------------
(* The session API driven by an arbitrary caller *)

Init ==
    /\ \E iface \in Interfaces : new(iface)
    /\ DeviceInit /\ ApiIdle /\ CrcIdle /\ LoopIdle

\* a caller calls set_lightbar with some colour; the trace records whether
\* the transport was written to and what the call returned
CallSetLightbar ==
    /\ Len(hist) < MaxCalls
    /\ \E c \in Colors, ok \in BOOLEAN :
          /\ set_lightbar(c[1], c[2], c[3], ok)
          /\ hist' = Append(hist, [color |-> c,
                                   wrote |-> dev_ok' + dev_fail' # dev_ok + dev_fail,
                                   ret   |-> ret'])
    /\ UNCHANGED <<stats_out, crc_vars, loop_vars>>

\* a caller calls get_stats
CallGetStats ==
    /\ stats_out' = get_stats
    /\ UNCHANGED <<ctl_vars, dev_vars, ret, hist, crc_vars, loop_vars>>

Next == CallSetLightbar \/ CallGetStats

Spec == Init /\ [][Next]_vars


---------------------------------------------------------------------------
(* f32 arithmetic of hsv_to_rgb                                            *)
(*                                                                         *)
(* A non-negative real is held exactly as <<ip, fp>> = ip + fp / 2^30.     *)
(* Every f32 that hsv_to_rgb produces from the loop's hues has this form:  *)
(* the smallest non-zero one is 1.5 / 60 > 2^-6, whose last mantissa bit   *)
(* is 2^-29. F32Round is IEEE-754 round-to-nearest-even to 24 significant  *)
(* bits, applied after each operation as the hardware does.                *)

FracOne == Pow2(30)

RECURSIVE BitLen(_)
BitLen(n) == IF n = 0 THEN 0 ELSE 1 + BitLen(n \div 2)

\* round ip + fp/2^30 (plus a non-zero rest below 2^-30 when sticky) to f32
F32Round(ip, fp, sticky) ==
    LET drop == IF ip > 0 THEN 6 + BitLen(ip)
                ELSE IF BitLen(fp) > 24 THEN BitLen(fp) - 24 ELSE 0
    IN  IF drop = 0 THEN <<ip, fp>>
        ELSE LET unit == Pow2(drop)
                 low  == fp % unit
                 kept == fp - low
                 half == unit \div 2
                 odd  == (fp \div unit) % 2 = 1
                 up   == low > half \/ (low = half /\ (sticky \/ odd))
                 res  == IF up THEN kept + unit ELSE kept
             IN  IF res = FracOne THEN <<ip + 1, 0>> ELSE <<ip, res>>

\* the first n binary digits of rem / den (rem < den), and the rest
RECURSIVE DivFrac(_, _, _)
DivFrac(rem, den, n) ==
    IF n = 0 THEN <<0, rem>>
    ELSE LET rest == DivFrac((2 * rem) % den, den, n - 1)
         IN  <<((2 * rem) \div den) * Pow2(n - 1) + rest[1], rest[2]>>

\* num / den in f32, for small non-negative integers
F32Div(num, den) ==
    LET d == DivFrac(num % den, den, 30)
    IN  F32Round(num \div den, d[1], d[2] # 0)

\* x % 2.0 (exact)
F32Mod2(x) == <<x[1] % 2, x[2]>>

\* (x - 1.0).abs() for x in [0, 2)
F32AbsSub1(x) ==
    IF x[1] >= 1 THEN F32Round(x[1] - 1, x[2], FALSE)
    ELSE IF x[2] = 0 THEN <<1, 0>>
    ELSE F32Round(0, FracOne - x[2], FALSE)

\* 1.0 - y for y in [0, 1]
F32OneMinus(y) ==
    IF y[1] >= 1 THEN <<0, 0>>
    ELSE IF y[2] = 0 THEN <<1, 0>>
    ELSE F32Round(0, FracOne - y[2], FALSE)

\* x * 255.0 for x in [0, 1]; the fraction is multiplied in two 15-bit halves
F32Mul255(x) ==
    LET hi   == x[2] \div 32768
        lo   == x[2] % 32768
        plo  == 255 * lo
        phi  == 255 * hi + (plo \div 32768)
    IN  F32Round(255 * x[1] + (phi \div 32768),
                 (phi % 32768) * 32768 + (plo % 32768), FALSE)

\* `as u8`: truncation toward zero, saturating
AsU8(x) == IF x[1] > 255 THEN 255 ELSE x[1]

---------------------------------------------------------------------------
(* Colour model *)

\* hsv_to_rgb(h, 1.0, 1.0), h given in half degrees (h2 = 2h, so h / 60.0 is
\* h2 / 120): with s = v = 1.0, c = v * s = 1.0 and m = v - c = 0.0 exactly
hsv_to_rgb(h2) ==
    LET c  == <<1, 0>>
        x  == F32OneMinus(F32AbsSub1(F32Mod2(F32Div(h2, 120))))    \* c * (...) with c = 1.0
        o  == <<0, 0>>
        t  == IF h2 < 120 THEN <<c, x, o>>
              ELSE IF h2 < 240 THEN <<x, c, o>>
              ELSE IF h2 < 360 THEN <<o, c, x>>
              ELSE IF h2 < 480 THEN <<o, x, c>>
              ELSE IF h2 < 600 THEN <<x, o, c>>
              ELSE <<c, o, x>>
    IN  <<AsU8(F32Mul255(t[1])), AsU8(F32Mul255(t[2])), AsU8(F32Mul255(t[3]))>>

\* get_color_name(h): the label chosen by `h as u32`
get_color_name(h2) ==
    LET n == h2 \div 2
    IN  IF n <= 30 THEN "Red"
        ELSE IF n <= 90 THEN "Yellow"
        ELSE IF n <= 150 THEN "Green"
        ELSE IF n <= 210 THEN "Cyan"
        ELSE IF n <= 270 THEN "Blue"
        ELSE IF n <= 330 THEN "Magenta"
        ELSE "Red"

---------------------------------------------------------------------------
(* The effect loop of main                                                 *)
(*                                                                         *)
(* Time is counted in ticks of one frame (1/60 s). A write takes no time;  *)
(* a sleep lasts exactly its duration. last_log.elapsed() is only ever     *)
(* compared with log_interval, so it is kept saturated at log_interval.    *)

speed == 3              \* 1.5 degrees, in half degrees
full_circle == 720      \* 360.0 degrees, in half degrees
frame_duration == 1     \* 1 / target_fps seconds
log_interval == 120     \* 2 s
backoff == 6            \* 100 ms

Min(a, b) == IF a < b THEN a ELSE b

\* next_hue that advances only when the colour was accepted
next_hue_on_success(h) == IF ret' = "Ok" THEN (h + speed) % full_circle ELSE h

\* hue = (hue + speed) % 360.0
next_hue(h) == (h + speed) % full_circle

\* the Ok(_) arm of the loop's match: count the frame, and print and reset
\* when the log interval has elapsed
loop_ok_arm ==
    /\ counted' = frame_count + 1
    /\ IF since_log >= log_interval
       THEN /\ snapshot' = [name   |-> get_color_name(hue),
                            rgb    |-> rgb',
                            sent   |-> get_stats'[1],
                            errors |-> get_stats'[2],
                            frames |-> frame_count + 1]
            /\ frame_count' = 0
            /\ logged' = TRUE
       ELSE /\ frame_count' = frame_count + 1
            /\ logged' = FALSE
            /\ UNCHANGED snapshot
    /\ frame_time' = 0
    /\ pc' = "loop"

\* an Err arm that propagates the error out of main
loop_err_arm_exit ==
    /\ counted' = frame_count
    /\ UNCHANGED <<frame_count, snapshot>>
    /\ logged' = FALSE
    /\ frame_time' = 0
    /\ pc' = "exit"

\* the Err(e) arm of the loop's match: print the error and sleep 100 ms
loop_err_arm ==
    /\ counted' = frame_count
    /\ UNCHANGED <<frame_count, snapshot>>
    /\ logged' = FALSE
    /\ frame_time' = backoff
    /\ pc' = "loop"

\* hsv_to_rgb(hue, 1.0, 1.0) for the hues the loop visits (the multiples of
\* speed below 360.0), computed once
LoopColors ==
    SubSeq([n \in 1..(full_circle \div speed) |-> hsv_to_rgb(speed * (n - 1))],
           1, full_circle \div speed)

\* let (r, g, b) = hsv_to_rgb(hue, 1.0, 1.0)
loop_color(h) == LoopColors[(h \div speed) + 1]

\* outcomes of device.write the transport may produce in iteration n
WriteOutcomes(n) == IF n < MaxFailIter THEN BOOLEAN ELSE {TRUE}

\* one iteration of the loop
Iterate ==
    /\ pc = "loop"
    /\ iter < MaxIter
    /\ \E ok \in WriteOutcomes(iter) :
          LET c == loop_color(hue)
          IN  /\ rgb' = c
              /\ set_lightbar(c[1], c[2], c[3], ok)
    /\ due' = (since_log >= log_interval)
    /\ IF ret' = "Ok" THEN loop_ok_arm ELSE loop_err_arm
    /\ hue' = next_hue(hue)
    /\ LET slept == IF frame_time' < frame_duration
                    THEN frame_duration - frame_time' ELSE 0
       IN  since_log' = Min((IF logged' THEN 0 ELSE since_log) + frame_time' + slept,
                            log_interval)
    /\ iter' = iter + 1
    /\ UNCHANGED <<stats_out, hist, crc_vars>>

InitLoop ==
    /\ \E iface \in Interfaces : new(iface)
    /\ DeviceInit /\ ApiIdle /\ CrcIdle
    /\ pc = "loop" /\ hue = 0 /\ rgb = <<0, 0, 0>> /\ frame_count = 0
    /\ since_log = 0 /\ frame_time = 0 /\ counted = 0 /\ snapshot = <<>>
    /\ logged = FALSE /\ due = FALSE /\ iter = 0

NextLoop == Iterate

SpecLoop == InitLoop /\ [][NextLoop]_vars

---------------------------------------------------------------------------
(* calculate_crc32 applied to byte sequences *)

CrcBytes == {0, 1, 49, 128, 255}

RECURSIVE SeqsUpTo(_, _)
SeqsUpTo(S, n) ==
    IF n = 0 THEN { <<>> }
    ELSE LET shorter == SeqsUpTo(S, n - 1)
         IN  shorter \cup { Append(q, x) : q \in shorter, x \in S }

\* the ASCII bytes of "123456789"
Check9 == <<49, 50, 51, 52, 53, 54, 55, 56, 57>>

CrcInputs == SeqsUpTo(CrcBytes, MaxCrcLen) \cup { Check9 }

InitCrc ==
    /\ crc_in \in CrcInputs
    /\ crc_out = <<>>
    /\ new(3) /\ DeviceInit /\ ApiIdle /\ LoopIdle

CrcCall ==
    /\ crc_out = <<>>
    /\ crc_out' = calculate_crc32(crc_in)
    /\ UNCHANGED <<crc_in, ctl_vars, dev_vars, api_vars, loop_vars>>

NextCrc == CrcCall

SpecCrc == InitCrc /\ [][NextCrc]_vars

---------------------------------------------------------------------------
(* Reference CRC-32: reflected polynomial 0xEDB88320, initial value       *)
(* 0xFFFFFFFF, final inversion, one bit at a time                         *)

RefPoly == <<32, 131, 184, 237>>

RefBit(crc) == Xor32(Shr1(crc), IF crc[1] % 2 = 1 THEN RefPoly ELSE Zero32)

RefByte(crc, byte) ==
    RefBit(RefBit(RefBit(RefBit(RefBit(RefBit(RefBit(RefBit(
        <<XorByte(crc[1], byte), crc[2], crc[3], crc[4]>>))))))))

RECURSIVE RefLoop(_, _, _, _)
RefLoop(crc, data, lo, hi) ==
    IF lo > hi THEN crc
    ELSE IF lo = hi THEN RefByte(crc, data[lo])
    ELSE LET mid  == (lo + hi) \div 2
             left == RefLoop(crc, data, lo, mid)
         IN  CASE Len(left) = 4 -> RefLoop(left, data, mid + 1, hi)

Crc32Ref(data) ==
    LET c == RefLoop(<<255, 255, 255, 255>>, data, 1, Len(data))
    IN  <<255 - c[1], 255 - c[2], 255 - c[3], 255 - c[4]>>

\* every table entry is 8 reflected shift/xor steps applied to its index
TableIsRef ==
    \A i \in 0..255 :
        CRC32_TABLE[i + 1] =
            RefBit(RefBit(RefBit(RefBit(RefBit(RefBit(RefBit(RefBit(<<i, 0, 0, 0>>))))))))

---------------------------------------------------------------------------
(* Properties of the session API *)

\* indices of the calls in the trace that wrote to the transport
Writes == { i \in 1..Len(hist) : hist[i].wrote }
OkWrites == { i \in Writes : hist[i].ret = "Ok" }
MaxOf(S) == CHOOSE m \in S : \A x \in S : x <= m

\* C1: on a new session whose writes all succeed, two calls of set_color with
\* the same colour make exactly one transport write, add exactly 1 to sent and
\* leave errors at 0.
C1_TwiceSameColorOneWrite ==
    (Len(hist) = 2 /\ hist[1].color = hist[2].color /\ dev_fail = 0)
        => (dev_ok + dev_fail = 1 /\ send_count = 1 /\ error_count = 0)

\* C2: a set_color call whose transport write fails returns the error, adds
\* exactly 1 to errors, leaves sent and the last-applied colour unchanged; and a
\* set_color call with the same colour right after a failed one writes to the
\* transport again.
C2_FailedWriteStep ==
    /\ dev_fail' # dev_fail =>
          /\ dev_fail' = dev_fail + 1
          /\ ret' = "Err"
          /\ error_count' = error_count + 1
          /\ send_count' = send_count
          /\ last_color' = last_color
    /\ (/\ Len(hist) >= 1
        /\ hist[Len(hist)].ret = "Err"
        /\ Len(hist') = Len(hist) + 1
        /\ hist'[Len(hist')].color = hist[Len(hist)].color)
          => hist'[Len(hist')].wrote

C2_FailedWrite == [][C2_FailedWriteStep]_vars

C2_Witness ==
    /\ Len(hist) >= 3
    /\ hist[2].ret = "Err"
    /\ hist[3].color = hist[2].color
    /\ hist[3].wrote
    /\ error_count >= 1

\* C3: a set_color call returns success without writing only if its colour is
\* the one carried by the most recent successful write of the session; before
\* any write has succeeded every call writes.
C3_SkipOnlyLastApplied ==
    \A i \in 1..Len(hist) :
        (hist[i].ret = "Ok" /\ ~hist[i].wrote) =>
            LET before == { j \in OkWrites : j < i }
            IN  before # {} /\ hist[MaxOf(before)].color = hist[i].color

\* C4: sent is the number of successful transport writes and errors the number
\* of failed ones; every step changes (sent, errors) by (+1, 0) on a successful
\* write, (0, +1) on a failed write and (0, 0) otherwise; stats() returns the
\* pair and changes nothing.
C4_CountersInv == send_count = dev_ok /\ error_count = dev_fail

C4_CountersStep ==
    /\ dev_ok' = dev_ok + 1 =>
          (dev_fail' = dev_fail /\ send_count' = send_count + 1 /\ error_count' = error_count)
    /\ dev_fail' = dev_fail + 1 =>
          (dev_ok' = dev_ok /\ send_count' = send_count /\ error_count' = error_count + 1)
    /\ (dev_ok' = dev_ok /\ dev_fail' = dev_fail) =>
          (send_count' = send_count /\ error_count' = error_count)
    /\ dev_ok' \in {dev_ok, dev_ok + 1}
    /\ dev_fail' \in {dev_fail, dev_fail + 1}
    /\ stats_out' # stats_out =>
          (stats_out' = <<send_count, error_count>> /\ UNCHANGED <<ctl_vars, dev_vars>>)

C4_Counters == [](C4_CountersInv) /\ [][C4_CountersStep]_vars

C4_Witness ==
    /\ send_count = 1 /\ error_count = 1
    /\ \E i \in 1..Len(hist) : hist[i].ret = "Ok" /\ ~hist[i].wrote
    /\ stats_out = <<1, 1>>

\* the colour of the last call that wrote to the transport
LastWritten == hist[MaxOf(Writes)].color

\* C5: the report handed to the transport has the mode's exact layout: USB 48
\* bytes, 0x02 0xFF 0xF7, R G B at 45..47, zero elsewhere; Bluetooth 78 bytes,
\* 0x31 0x02 0xFF 0xF7, R G B at 47..49, zero elsewhere in 0..73.
C5_ReportLayout ==
    /\ (Writes = {}) <=> (report = <<>>)
    /\ Writes # {} =>
          LET c == LastWritten
          IN  IF usb_mode
              THEN /\ Len(report) = 48
                   /\ \A off \in 0..47 :
                         At(report, off) =
                             CASE off = 0  -> 2
                               [] off = 1  -> 255
                               [] off = 2  -> 247
                               [] off = 45 -> c[1]
                               [] off = 46 -> c[2]
                               [] off = 47 -> c[3]
                               [] OTHER    -> 0
              ELSE /\ Len(report) = 78
                   /\ \A off \in 0..73 :
                         At(report, off) =
                             CASE off = 0  -> 49
                               [] off = 1  -> 2
                               [] off = 2  -> 255
                               [] off = 3  -> 247
                               [] off = 47 -> c[1]
                               [] off = 48 -> c[2]
                               [] off = 49 -> c[3]
                               [] OTHER    -> 0

C5_Witness ==
    /\ usb_mode /\ report # <<>>
    /\ <<At(report, 45), At(report, 46), At(report, 47)>> = <<10, 20, 30>>

\* C6: in a Bluetooth report bytes 74..77 are the CRC-32 of bytes [0, 74) of
\* the same report, least significant byte at 74, most significant at 77.
C6_ChecksumTrailer ==
    (report # <<>> /\ ~usb_mode) =>
        LET crc == Crc32Ref(SubSeq(report, 1, 74))
        IN  /\ At(report, 74) = crc[1]
            /\ At(report, 75) = crc[2]
            /\ At(report, 76) = crc[3]
            /\ At(report, 77) = crc[4]

C6_Witness ==
    /\ ~usb_mode /\ report # <<>>
    /\ <<At(report, 47), At(report, 48), At(report, 49)>> = <<255, 255, 255>>
    /\ <<At(report, 74), At(report, 75), At(report, 76), At(report, 77)>> # <<0, 0, 0, 0>>

---------------------------------------------------------------------------
(* Properties of calculate_crc32 *)

\* C7: calculate_crc32 is the standard CRC-32 (bit-by-bit reference) on every
\* input; the empty sequence gives 0x00000000, "123456789" gives 0xCBF43926,
\* and every table entry is 8 reflected shift/xor steps applied to its index.
C7_CrcIsStandard ==
    /\ TableIsRef
    /\ crc_out # <<>> =>
          /\ crc_out = Crc32Ref(crc_in)
          /\ crc_in = <<>> => crc_out = <<0, 0, 0, 0>>
          /\ crc_in = Check9 => crc_out = <<38, 57, 244, 203>>

C7_Witness == crc_in = Check9 /\ crc_out = <<38, 57, 244, 203>>


---------------------------------------------------------------------------
(* Properties of the effect loop *)

\* C8: a write failure never ends the loop: the failing iteration leaves the
\* frame counter unchanged, waits the backoff and the loop goes on to call
\* set_color again; the frame counter is incremented by exactly 1 in every
\* iteration whose set_color returned success and in no other.
C8_IterationStep ==
    iter' = iter + 1 =>
        /\ pc' = "loop"
        /\ ret' \in {"Ok", "Err"}
        /\ ret' = "Err" =>
              /\ counted' = frame_count
              /\ frame_count' = frame_count
              /\ frame_time' >= backoff
        /\ ret' = "Ok" =>
              /\ counted' = frame_count + 1
              /\ frame_count' \in {frame_count + 1, 0}

C9_SnapshotWheneverDue ==
    (iter > 0 /\ due) =>
        /\ logged
        /\ snapshot.sent = send_count
        /\ snapshot.errors = error_count
        /\ frame_count = 0
        /\ since_log < log_interval

\* C10: hue starts at 0, advances by 1.5 exactly once per iteration whatever
\* set_color returned, wraps modulo 360, stays in [0, 360) and is back at 0
\* after 240 iterations (here in half degrees: 3, 720).
C10_HueCycle ==
    /\ 0 <= hue /\ hue < 720
    /\ hue = (3 * iter) % 720
    /\ (hue = 0) <=> (iter % 240 = 0)

C10_Witness ==
    /\ iter = 240 /\ hue = 0
    /\ error_count > 0 /\ send_count > 0


=============================================================================
